---- MODULE Spec2Model ----
(***************************************************************************)
(* Model of the task orchestration core of mcp-inception (src/index.ts):   *)
(* the delegate channel (safeCommandPipe), the bounded parallel dispatcher *)
(* (executeParallel), the map-reduce reducer (executeMapReduce) and the    *)
(* three CallTool handlers that wrap them.                                 *)
(*                                                                         *)
(* One behaviour is one tool request served by one server.  Text is a      *)
(* sequence of tokens (the empty string is << >>).  JavaScript runs every  *)
(* callback to completion and drains the microtask queue before the next   *)
(* I/O event, so a child-process event handler together with the           *)
(* continuation of the `await` it settles is one action.                   *)
(***************************************************************************)
EXTENDS Integers, Sequences, FiniteSets, TLC

\* ---------------------------------------------------------------- bounds
MaxItems == 3
MaxCeiling == 2
\* how far below zero the chunk loop index is followed
MaxDescent == 3
\* the ceiling used when neither the environment nor the config gives one
DefaultMaxConcurrent == 10

\* item texts; the code never inspects an item, it only pastes it into a
\* prompt and into error messages
ItemNames == << "a", "b", "c", "d", "e" >>
\* exit statuses the external program ends with (a null status, reported
\* when a signal ends the child, takes the same branch as a non-zero one)
ExitCodes == { 0, 1 }
\* what the external program prints on its diagnostic stream, if anything
Diagnostic == << "diag" >>
\* how many bytes of the program's output one 'data' event may carry
ChunkSizes == { 1, 2 }

VARIABLES
    name,           \* request.params.name: which tool is called
    prompt,         \* args.prompt / args.command
    mapPrompt,      \* args.mapPrompt
    reducePrompt,   \* args.reducePrompt
    items,          \* args.items
    initialValue,   \* args.initialValue (optional)
    env,            \* process.env.MCP_INCEPTION_MAX_CONCURRENT (optional)
    config,         \* config.maxConcurrent (optional)
    maxConcurrent,  \* this.maxConcurrent
    pc,             \* position of the handler's async function
    i,              \* chunk loop index (0-based, as in the source)
    calls,          \* every safeCommandPipe call so far, in spawn order
    results,        \* executeParallel: results
    errors,         \* executeParallel / executeMapReduce: errors
    mapResults,     \* executeMapReduce: mapResults
    accumulator,    \* executeMapReduce: accumulator
    r,              \* number of mapResults already taken by the reduce loop
    completed,      \* history: call ids in the order they settled
    response        \* what the CallTool handler returned

vars == << name, prompt, mapPrompt, reducePrompt, items, initialValue,
           env, config, maxConcurrent, pc, i, calls, results, errors, mapResults,
           accumulator, r, completed, response >>

args == << name, prompt, mapPrompt, reducePrompt, items, initialValue,
           env, config, maxConcurrent >>

\* ------------------------------------------------------------ text helpers
RECURSIVE Concat(_)
Concat(ss) == IF ss = << >> THEN << >> ELSE Head(ss) \o Concat(Tail(ss))

\* What String.prototype.replace inserts for a match of `tok` when given the
\* replacement string `text`: "$&" stands for the matched text and "$$" for
\* a dollar sign.
RECURSIVE Substitution(_, _)
Substitution(text, tok) ==
    IF text = << >> THEN << >>
    ELSE << (CASE Head(text) = "$&" -> tok
               [] Head(text) = "$$" -> "$"
               [] OTHER -> Head(text)) >>
         \o Substitution(Tail(text), tok)

\* String.prototype.replace(/tok/g, text): every occurrence of the token is
\* replaced by the text; the inserted text is not rescanned by this call.
RECURSIVE Replace(_, _, _)
Replace(template, tok, text) ==
    IF template = << >> THEN << >>
    ELSE (IF Head(template) = tok THEN Substitution(text, tok)
          ELSE << Head(template) >>)
         \o Replace(Tail(template), tok, text)

\* Bytes and characters.  A token is one character of a text or one byte of
\* a stream; every character but EAcute is a single byte, written with the
\* same token.  EAcute is the two bytes Lead Trail in UTF-8.
EAcute == "U+00E9"
Lead == "0xC3"
Trail == "0xA9"
Replacement == "U+FFFD"

\* the UTF-8 bytes of a text, as the external program writes them
RECURSIVE Utf8(_)
Utf8(text) ==
    IF text = << >> THEN << >>
    ELSE (IF Head(text) = EAcute THEN << Lead, Trail >> ELSE << Head(text) >>)
         \o Utf8(Tail(text))

\* Buffer.prototype.toString(): the bytes of one buffer decoded as UTF-8; a
\* byte that is not part of a complete sequence inside this buffer becomes
\* the replacement character
RECURSIVE BufferToString(_)
BufferToString(data) ==
    IF data = << >> THEN << >>
    ELSE IF Len(data) >= 2 /\ data[1] = Lead /\ data[2] = Trail
         THEN << EAcute >> \o BufferToString(Tail(Tail(data)))
         ELSE << (IF Head(data) \in { Lead, Trail } THEN Replacement
                  ELSE Head(data)) >>
              \o BufferToString(Tail(data))

Contains(text, part) ==
    \E p \in 0..(Len(text) - Len(part)) :
        SubSeq(text, p + 1, p + Len(part)) = part

\* Number-to-string conversion of `${code}` in a template literal.
CodeStr(code) == << "0", "1", "2", "3", "4" >>[code + 1]

Min(a, b) == IF a < b THEN a ELSE b

Max(a, b) == IF a > b THEN a ELSE b

\* optional values: undefined / null is [some |-> FALSE]
Undefined == [some |-> FALSE, val |-> << >>]
Some(text) == [some |-> TRUE, val |-> text]
\* faulty variant: an absent value is turned into text (`${x}`)
OrEmpty_Stringified(opt) == IF opt.some THEN opt.val ELSE << "undefined" >>

\* `x || ''` on an optional string
OrEmpty(opt) == IF opt.some /\ opt.val # << >> THEN opt.val ELSE << >>

\* numbers: NaN and an absent number are [some |-> FALSE]
NaN == [some |-> FALSE, val |-> 0]
Num(n) == [some |-> TRUE, val |-> n]

\* truthiness of a number: NaN, undefined and 0 are falsy
Truthy(num) == num.some /\ num.val # 0

Digits == << "0", "1", "2", "3", "4", "5", "6", "7", "8", "9" >>

IsDigit(ch) == \E d \in DOMAIN Digits : Digits[d] = ch

DigitValue(ch) == (CHOOSE d \in DOMAIN Digits : Digits[d] = ch) - 1

\* the value of the digits a text starts with
RECURSIVE LeadingDigits(_, _)
LeadingDigits(text, value) ==
    IF text = << >> \/ ~IsDigit(Head(text)) THEN value
    ELSE LeadingDigits(Tail(text), 10 * value + DigitValue(Head(text)))

\* parseInt(text): an optional sign and the digits that follow it; NaN when
\* no digit follows
ParseInt(text) ==
    LET signed == text # << >> /\ Head(text) \in { "-", "+" }
        digits == IF signed THEN Tail(text) ELSE text
    IN  IF digits = << >> \/ ~IsDigit(Head(digits)) THEN NaN
        ELSE Num((IF signed /\ Head(text) = "-" THEN -1 ELSE 1)
                 * LeadingDigits(digits, 0))

\* parseInt(process.env.MCP_INCEPTION_MAX_CONCURRENT || '')
\*     || config.maxConcurrent || 10
EffectiveCeiling(envText, configured) ==
    IF Truthy(ParseInt(OrEmpty(envText))) THEN ParseInt(OrEmpty(envText)).val
    ELSE IF Truthy(configured) THEN configured.val
    ELSE DefaultMaxConcurrent

\* ------------------------------------------------------- the request args
NoResponse ==
    [kind |-> "none", isError |-> FALSE, text |-> << >>,
     results |-> << >>, result |-> << >>, errors |-> << >>]

\* args.items: lists of distinct items, and a list that repeats an item
ItemLists ==
    { [ j \in 1..n |-> << ItemNames[j] >> ] : n \in 0..MaxItems }
    \cup { << << ItemNames[1] >>, << ItemNames[1] >> >> }

ToolNames ==
    { "execute_mcp_client", "execute_parallel_mcp_client",
      "execute_map_reduce_mcp_client" }

\* args.initialValue: absent, empty, plain, and a text that is itself a
\* placeholder token
InitialValues ==
    { Undefined, Some(<< >>), Some(<< "0" >>), Some(<< "{result}" >>) }

\* args.prompt of the single call: plain, and with a character of more than
\* one byte
Prompts == { << "P" >>, << "P", EAcute >> }

\* what the environment and the config can hold for the ceiling: nothing,
\* a positive, zero or negative integer, and for the environment a text
\* that is no number
EnvValues ==
    { Undefined, Some(<< "0" >>), Some(<< "-", "1" >>), Some(<< "2" >>),
      Some(<< "x" >>) }

ConfigValues == { NaN, Num(0), Num(-1), Num(1) }

\* a tools/call request about to be served
Request ==
    /\ name \in ToolNames
    /\ prompt \in (IF name = "execute_mcp_client"
                   THEN Prompts ELSE { << "P" >> })
    /\ mapPrompt = << "M", "{item}" >>
    /\ reducePrompt = << "{accumulator}", "+", "{result}" >>
    /\ items \in (IF name = "execute_mcp_client"
                  THEN { << >> } ELSE ItemLists)
    /\ initialValue \in (IF name = "execute_map_reduce_mcp_client"
                         THEN InitialValues ELSE { Undefined })
    /\ pc = "request"
    /\ i = 0
    /\ calls = << >>
    /\ results = << >>
    /\ errors = << >>
    /\ mapResults = << >>
    /\ accumulator = << >>
    /\ r = 0
    /\ completed = << >>
    /\ response = NoResponse

\* State after construction with a positive ceiling given by the config and
\* none by the environment, with one request about to be served.
Init ==
    /\ env = Undefined
    /\ config \in { Num(m) : m \in 1..MaxCeiling }
    /\ maxConcurrent = EffectiveCeiling(env, config)
    /\ Request

\* State after construction for whatever the environment and the config
\* hold, with one request about to be served.
InitAnyCeiling ==
    /\ env \in EnvValues
    /\ config \in ConfigValues
    /\ maxConcurrent = EffectiveCeiling(env, config)
    /\ Request

\* ------------------------------------------------------- delegate channel
JsonDirective == << " [RESPOND IN JSON KEY-VALUE PAIRS]" >>

\* What safeCommandPipe writes to the child's stdin before closing it.
StdinBytes(input, forceJson) ==
    (IF forceJson THEN input \o JsonDirective ELSE input) \o << "\n" >>

\* safeCommandPipe up to the point where it returns its pending promise:
\* spawn, register the handlers, write the input, end stdin.  `reply` is the
\* text the external program would print for this request; how much of it
\* is printed, what goes to stderr and how the program exits is decided by
\* the events below.
safeCommandPipe(kind, idx, input, forceJson, reply) ==
    [kind |-> kind, idx |-> idx, stdin |-> StdinBytes(input, forceJson),
     stdinEnded |-> TRUE, reply |-> Utf8(reply), read |-> 0,
     stdout |-> << >>,
     stderr |-> << >>, status |-> "running", outcome |-> "pending",
     code |-> "", message |-> << >>, got |-> << >>, ret |-> Undefined]

InFlight == { k \in DOMAIN calls : calls[k].status = "running" }

\* faulty variant: the rejection's message leaves out the exit status
CloseMessage_NoCode(code, stderr) ==
    << "Command failed. stderr: " >> \o stderr

\* rejection messages built by the 'close' and 'error' handlers
CloseMessage(code, stderr) ==
    << "Command failed with code ", CodeStr(code), ". stderr: " >> \o stderr

SpawnErrors == { << "spawn /bin/bash ENOENT" >> }

ErrorMessage(errText) == << "Failed to start process: " >> \o errText

\* proc.stdout.on('data'): the next piece of the program's output arrives
\* and is appended to this call's own stdout buffer.
StdoutData(k, n) ==
    /\ k \in InFlight
    /\ calls[k].read + n <= Len(calls[k].reply)
    /\ LET data == SubSeq(calls[k].reply, calls[k].read + 1, calls[k].read + n)
       IN  calls' = [calls EXCEPT ![k].stdout = @ \o BufferToString(data),
                                  ![k].read = @ + n]
    /\ UNCHANGED << args, pc, i, results, errors, mapResults, accumulator,
                    r, completed, response >>

\* proc.stderr.on('data')
StderrData(k) ==
    /\ k \in InFlight
    /\ Len(calls[k].stderr) < Len(Diagnostic)
    /\ LET data == << Diagnostic[Len(calls[k].stderr) + 1] >>
       IN  calls' = [calls EXCEPT ![k].stderr = @ \o BufferToString(data)]
    /\ UNCHANGED << args, pc, i, results, errors, mapResults, accumulator,
                    r, completed, response >>

\* -------------------------------------------- what the awaiting code does
\* `ok` says whether the promise of safeCommandPipe resolved; `message` is
\* error.message of the rejection otherwise.

\* faulty variant: a new result is put in front of the earlier ones
ParallelResults_Unshift(res, ok, stdout) ==
    IF ok /\ stdout # << >> THEN << stdout >> \o res ELSE res

\* executeParallel, body of the per-item async function after the await
ParallelResults(res, ok, stdout) ==
    IF ok /\ stdout # << >> THEN Append(res, stdout) ELSE res

\* faulty variant: diagnostic output is reported even beside primary output
ItemErrors_AlsoWarnings(errs, item, ok, stdout, stderr, message) ==
    IF ok
    THEN IF stderr # << >>
         THEN Append(errs, << "Error processing item \"" >> \o item
                           \o << "\": " >> \o stderr)
         ELSE errs
    ELSE Append(errs, << "Failed to process item \"" >> \o item
                      \o << "\": " >> \o message)

\* faulty variant: an item that printed nothing at all is reported as well
ItemErrors_EmptyIsError(errs, item, ok, stdout, stderr, message) ==
    IF ok
    THEN IF stdout # << >> THEN errs
         ELSE Append(errs, << "Error processing item \"" >> \o item
                           \o << "\": " >> \o stderr)
    ELSE Append(errs, << "Failed to process item \"" >> \o item
                      \o << "\": " >> \o message)

ItemErrors(errs, item, ok, stdout, stderr, message) ==
    IF ok
    THEN IF stdout # << >> THEN errs
         ELSE IF stderr # << >>
              THEN Append(errs, << "Error processing item \"" >> \o item
                                \o << "\": " >> \o stderr)
              ELSE errs
    ELSE Append(errs, << "Failed to process item \"" >> \o item
                      \o << "\": " >> \o message)

\* executeMapReduce, value returned by the per-item async function
MapItemReturn(ok, stdout, stderr) ==
    IF ok /\ stdout # << >> THEN Some(stdout) ELSE Undefined

\* faulty variant: the accumulator takes the primary output even when empty
ReduceAccumulator_Always(acc, stdout) == stdout

\* executeMapReduce, reduce loop body after the await
ReduceAccumulator(acc, stdout) == IF stdout # << >> THEN stdout ELSE acc

\* faulty variant: a single error does not raise the flag
IsError_OffByOne(errs) == Len(errs) > 1

\* isError of the two batch handlers
IsError(errs) == Len(errs) > 0

ParallelResponse(res, errs) ==
    [kind |-> "parallel", isError |-> IsError(errs), text |-> << >>,
     results |-> res, result |-> << >>, errors |-> errs]

\* faulty variant: once an error is recorded the accumulator is withheld
MapReduceResponse_ResultDropped(acc, errs) ==
    [kind |-> "map_reduce", isError |-> IsError(errs), text |-> << >>,
     results |-> << >>,
     result |-> (IF IsError(errs) THEN << >> ELSE acc), errors |-> errs]

MapReduceResponse(acc, errs) ==
    [kind |-> "map_reduce", isError |-> IsError(errs), text |-> << >>,
     results |-> << >>, result |-> acc, errors |-> errs]

\* faulty variant: the diagnostic output is preferred (`stderr || stdout`)
SingleResponse_StderrFirst(ok, stdout, stderr, message) ==
    IF ok
    THEN [kind |-> "single", isError |-> FALSE,
          text |-> (IF stderr # << >> THEN stderr ELSE stdout),
          results |-> << >>, result |-> << >>, errors |-> << >>]
    ELSE [kind |-> "single", isError |-> TRUE,
          text |-> << "Error executing MCP client command: " >> \o message,
          results |-> << >>, result |-> << >>, errors |-> << >>]

\* execute_mcp_client: `stdout || stderr`, or the error-flagged text
SingleResponse(ok, stdout, stderr, message) ==
    IF ok
    THEN [kind |-> "single", isError |-> FALSE,
          text |-> (IF stdout # << >> THEN stdout ELSE stderr),
          results |-> << >>, result |-> << >>, errors |-> << >>]
    ELSE [kind |-> "single", isError |-> TRUE,
          text |-> << "Error executing MCP client command: " >> \o message,
          results |-> << >>, result |-> << >>, errors |-> << >>]

\* The promise of call k settles and the code awaiting it runs on.
\* history: how a call ended
Outcome(ok, started, stdout, stderr) ==
    IF ~started THEN "start_failure"
    ELSE IF ~ok THEN "exit_failure"
    ELSE IF stdout # << >> THEN "output"
    ELSE IF stderr # << >> THEN "diagnostic"
    ELSE "silent"

\* faulty variant: the failure of a reduce step is swallowed without a message
CaughtErrors_Swallowed(errs, message) == errs

\* executeMapReduce, the catch around both phases
CaughtErrors(errs, message) ==
    Append(errs, << "Map-reduce operation failed: " >> \o message)

Settle(k, ok, started, code, message) ==
    LET c == calls[k]
        \* the buffers are locals of the promise and die with it; what
        \* is kept of the call is how it ended: the exit status, the
        \* rejection's message, and the primary output a resolved promise
        \* handed over
        done == [c EXCEPT !.status = IF ok THEN "resolved" ELSE "rejected",
                          !.outcome = Outcome(ok, started, c.stdout, c.stderr),
                          !.code = code,
                          !.message = message,
                          !.got = IF ok THEN c.stdout ELSE << >>,
                          !.stdout = << >>, !.stderr = << >>, !.read = 0]
    IN  /\ completed' = Append(completed, k)
        /\ CASE c.kind = "parallel" ->
                /\ results' = ParallelResults(results, ok, c.stdout)
                /\ errors' = ItemErrors(errors, items[c.idx], ok, c.stdout,
                                        c.stderr, message)
                /\ calls' = [calls EXCEPT ![k] = done]
                /\ UNCHANGED << pc, accumulator, r, response >>
             [] c.kind = "map" ->
                /\ errors' = ItemErrors(errors, items[c.idx], ok, c.stdout,
                                        c.stderr, message)
                /\ calls' = [calls EXCEPT ![k] =
                       [done EXCEPT !.ret = MapItemReturn(ok, c.stdout, c.stderr)]]
                /\ UNCHANGED << pc, results, accumulator, r, response >>
             [] c.kind = "reduce" ->
                /\ calls' = [calls EXCEPT ![k] = done]
                /\ IF ok
                   THEN /\ accumulator' = ReduceAccumulator(accumulator, c.stdout)
                        /\ pc' = "reduce_loop"
                        /\ UNCHANGED << errors, response >>
                   ELSE \* the rejection is thrown out of the loop into the
                        \* catch of executeMapReduce, which returns
                        /\ errors' = CaughtErrors(errors, message)
                        /\ response' = MapReduceResponse(accumulator, errors')
                        /\ pc' = "done"
                        /\ UNCHANGED accumulator
                /\ UNCHANGED << results, r >>
             [] c.kind = "single" ->
                /\ calls' = [calls EXCEPT ![k] = done]
                /\ response' = SingleResponse(ok, c.stdout, c.stderr, message)
                /\ pc' = "done"
                /\ UNCHANGED << results, errors, accumulator, r >>
        /\ UNCHANGED << args, i, mapResults >>

\* proc.on('close'): exit status 0 resolves, any other status rejects
ProcClose(k, code) ==
    /\ k \in InFlight
    /\ Settle(k, code = 0, TRUE, CodeStr(code),
              IF code = 0 THEN << >> ELSE CloseMessage(code, calls[k].stderr))

\* proc.on('error'): the process could not be started
ProcError(k, errText) ==
    /\ k \in InFlight
    /\ calls[k].stdout = << >>
    /\ calls[k].stderr = << >>
    /\ Settle(k, FALSE, FALSE, "", ErrorMessage(errText))

\* --------------------------------------------------------- the dispatcher
\* faulty variant: the slice ignores the ceiling and takes every remaining item
ChunkIndices_NoCeiling(from) == (from + 1)..Len(items)

\* Array.prototype.slice: a negative index counts from the end of the
\* array, and every index is clamped to the array
SliceIndex(x) ==
    IF x < 0 THEN Max(Len(items) + x, 0) ELSE Min(x, Len(items))

\* items.slice(i, i + maxConcurrent), as the 1-based indices it covers
ChunkIndices(from) ==
    (SliceIndex(from) + 1)..SliceIndex(from + maxConcurrent)

\* faulty variant: the loop resumes when the first call of the chunk settles
\* (Promise.race in place of Promise.all)
ChunkSettled_Race(from) ==
    \E k \in ChunkIndices(from) : calls[k].status # "running"

\* faulty variant: Promise.all over promises that do reject: nothing resumes
\* the loop once a call of the chunk has failed
ChunkSettled_OnlyResolved(from) ==
    \A k \in ChunkIndices(from) : calls[k].status = "resolved"

\* Promise.all over promises that never reject: every call has settled
ChunkSettled(from) ==
    \A k \in ChunkIndices(from) : calls[k].status # "running"

\* chunk.map(async (item) => ...): every call of the chunk is started, in
\* input order, before the function reaches `await Promise.all`
SpawnChunk(kind, from) ==
    calls \o [ j \in 1..Cardinality(ChunkIndices(from)) |->
                 LET item == items[from + j]
                 IN  safeCommandPipe(kind, from + j,
                        IF kind = "map"
                        THEN Replace(mapPrompt, "{item}", item)
                        ELSE prompt \o << " " >> \o item,
                        TRUE, item) ]

\* faulty variant: the outputs of a chunk are collected as the calls complete
RECURSIVE ReturnsOf(_, _, _)
ReturnsOf(ks, from, to) ==
    IF ks = << >> THEN << >>
    ELSE (IF /\ Head(ks) >= from
             /\ Head(ks) <= to
             /\ calls[Head(ks)].ret.some
          THEN << calls[Head(ks)].ret.val >> ELSE << >>)
         \o ReturnsOf(Tail(ks), from, to)

ChunkReturns_CompletionOrder(from, to) == ReturnsOf(completed, from, to)

\* faulty variant: the null returns of failed items are not filtered out
RECURSIVE ChunkReturns_Unfiltered(_, _)
ChunkReturns_Unfiltered(from, to) ==
    IF from > to THEN << >>
    ELSE << calls[from].ret.val >> \o ChunkReturns_Unfiltered(from + 1, to)

\* results.filter(Boolean) over the chunk, in the order of the promises
RECURSIVE ChunkReturns(_, _)
ChunkReturns(from, to) ==
    IF from > to THEN << >>
    ELSE (IF calls[from].ret.some /\ calls[from].ret.val # << >>
          THEN << calls[from].ret.val >> ELSE << >>)
         \o ChunkReturns(from + 1, to)

\* handler of execute_mcp_client: one call without the JSON directive
ExecuteMcpClient ==
    /\ pc = "request"
    /\ name = "execute_mcp_client"
    /\ calls' = << safeCommandPipe("single", 0, prompt, FALSE, prompt) >>
    /\ pc' = "single_await"
    /\ UNCHANGED << args, i, results, errors, mapResults, accumulator, r,
                    completed, response >>

\* handler of execute_parallel_mcp_client entering executeParallel
ExecuteParallelMcpClient ==
    /\ pc = "request"
    /\ name = "execute_parallel_mcp_client"
    /\ results' = << >>
    /\ errors' = << >>
    /\ i' = 0
    /\ pc' = "par_loop"
    /\ UNCHANGED << args, calls, mapResults, accumulator, r, completed,
                    response >>

ParallelChunk ==
    /\ pc = "par_loop"
    /\ i < Len(items)
    /\ calls' = SpawnChunk("parallel", i)
    /\ pc' = "par_await"
    /\ UNCHANGED << args, i, results, errors, mapResults, accumulator, r,
                    completed, response >>

\* await Promise.all(promises) resumes; i += this.maxConcurrent
ParallelAwait ==
    /\ pc = "par_await"
    /\ ChunkSettled(i)
    /\ i + maxConcurrent >= -MaxDescent
    /\ i' = i + maxConcurrent
    /\ pc' = "par_loop"
    /\ UNCHANGED << args, calls, results, errors, mapResults, accumulator,
                    r, completed, response >>

\* faulty variant: a recorded failure ends the batch before the remaining chunks
ParallelReturn_AbortOnError ==
    /\ pc = "par_loop"
    /\ (~(i < Len(items)) \/ errors # << >>)
    /\ response' = ParallelResponse(results, errors)
    /\ pc' = "done"
    /\ UNCHANGED << args, i, calls, results, errors, mapResults,
                    accumulator, r, completed >>

\* return { results, errors } and the handler's response
ParallelReturn ==
    /\ pc = "par_loop"
    /\ ~(i < Len(items))
    /\ response' = ParallelResponse(results, errors)
    /\ pc' = "done"
    /\ UNCHANGED << args, i, calls, results, errors, mapResults,
                    accumulator, r, completed >>

\* handler of execute_map_reduce_mcp_client entering executeMapReduce
ExecuteMapReduceMcpClient ==
    /\ pc = "request"
    /\ name = "execute_map_reduce_mcp_client"
    /\ errors' = << >>
    /\ accumulator' = OrEmpty(initialValue)
    /\ mapResults' = << >>
    /\ i' = 0
    /\ pc' = "map_loop"
    /\ UNCHANGED << args, calls, results, r, completed, response >>

MapChunk ==
    /\ pc = "map_loop"
    /\ i < Len(items)
    /\ calls' = SpawnChunk("map", i)
    /\ pc' = "map_await"
    /\ UNCHANGED << args, i, results, errors, mapResults, accumulator, r,
                    completed, response >>

\* await Promise.all resumes; mapResults.push(...results.filter(Boolean))
MapAwait ==
    /\ pc = "map_await"
    /\ ChunkSettled(i)
    /\ i + maxConcurrent >= -MaxDescent
    /\ mapResults' = mapResults
           \o ChunkReturns(SliceIndex(i) + 1, SliceIndex(i + maxConcurrent))
    /\ i' = i + maxConcurrent
    /\ pc' = "map_loop"
    /\ UNCHANGED << args, calls, results, errors, accumulator, r, completed,
                    response >>

\* faulty variant: the reduce loop starts at the second map output
MapDone_SkipFirst ==
    /\ pc = "map_loop"
    /\ ~(i < Len(items))
    /\ r' = 1
    /\ pc' = "reduce_loop"
    /\ UNCHANGED << args, i, calls, results, errors, mapResults,
                    accumulator, completed, response >>

\* the map loop ends and `for (const result of mapResults)` begins
MapDone ==
    /\ pc = "map_loop"
    /\ ~(i < Len(items))
    /\ r' = 0
    /\ pc' = "reduce_loop"
    /\ UNCHANGED << args, i, calls, results, errors, mapResults,
                    accumulator, completed, response >>

FormattedReducePrompt(acc, result) ==
    Replace(Replace(reducePrompt, "{accumulator}", acc), "{result}", result)

\* faulty variant: the reduce call is not awaited
ReduceStep_NoAwait ==
    /\ pc = "reduce_loop"
    /\ r < Len(mapResults)
    /\ LET result == mapResults[r + 1]
       IN  calls' = Append(calls,
               safeCommandPipe("reduce", r + 1,
                   FormattedReducePrompt(accumulator, result), TRUE,
                   accumulator \o result))
    /\ r' = r + 1
    /\ pc' = "reduce_loop"
    /\ UNCHANGED << args, i, results, errors, mapResults, accumulator,
                    completed, response >>

\* one iteration of the reduce loop up to its await
ReduceStep ==
    /\ pc = "reduce_loop"
    /\ r < Len(mapResults)
    /\ LET result == mapResults[r + 1]
       IN  calls' = Append(calls,
               safeCommandPipe("reduce", r + 1,
                   FormattedReducePrompt(accumulator, result), TRUE,
                   accumulator \o result))
    /\ r' = r + 1
    /\ pc' = "reduce_await"
    /\ UNCHANGED << args, i, results, errors, mapResults, accumulator,
                    completed, response >>

\* return { result: accumulator, errors } and the handler's response
MapReduceReturn ==
    /\ pc = "reduce_loop"
    /\ ~(r < Len(mapResults))
    /\ response' = MapReduceResponse(accumulator, errors)
    /\ pc' = "done"
    /\ UNCHANGED << args, i, calls, results, errors, mapResults,
                    accumulator, r, completed >>

Next ==
    \/ ExecuteMcpClient
    \/ ExecuteParallelMcpClient
    \/ ParallelChunk
    \/ ParallelAwait
    \/ ParallelReturn
    \/ ExecuteMapReduceMcpClient
    \/ MapChunk
    \/ MapAwait
    \/ MapDone
    \/ ReduceStep
    \/ MapReduceReturn
    \/ \E k \in DOMAIN calls, n \in ChunkSizes : StdoutData(k, n)
    \/ \E k \in DOMAIN calls : StderrData(k)
    \/ \E k \in DOMAIN calls, code \in ExitCodes : ProcClose(k, code)
    \/ \E k \in DOMAIN calls, errText \in SpawnErrors : ProcError(k, errText)

Spec == Init /\ [][Next]_vars

\* the steps the server's own code takes: a request handler or the
\* continuation of an await, run by the event loop as soon as it is ready
HandlerStep ==
    \/ ExecuteMcpClient
    \/ ExecuteParallelMcpClient
    \/ ParallelChunk
    \/ ParallelAwait
    \/ ParallelReturn
    \/ ExecuteMapReduceMcpClient
    \/ MapChunk
    \/ MapAwait
    \/ MapDone
    \/ ReduceStep
    \/ MapReduceReturn

\* a spawned process ends: 'close' with its exit code, or 'error'
ProcessExits ==
    \E k \in DOMAIN calls :
        \/ \E code \in ExitCodes : ProcClose(k, code)
        \/ \E errText \in SpawnErrors : ProcError(k, errText)

\* the program under the assumption that ready continuations are run and
\* that a process in flight eventually exits or fails to start; safeCommandPipe
\* sets no timeout, so nothing else ends a call
FairSpec == Spec /\ WF_vars(HandlerStep) /\ WF_vars(ProcessExits)

\* the program for whatever ceiling the constructor computes
CeilingSpec == InitAnyCeiling /\ [][Next]_vars

\* ================================================================ claims
Batch == name # "execute_mcp_client"

\* the calls made for items, by executeParallel or the map phase
ItemCalls == { k \in DOMAIN calls : calls[k].kind \in { "parallel", "map" } }

\* 0-based number of the chunk an item call belongs to
ChunkNo(k) == (calls[k].idx - 1) \div maxConcurrent

Settled(k) == calls[k].status # "running"

\* the chunk loop is over
LoopOver == pc \in { "reduce_loop", "reduce_await", "done" }

CeilDiv(n, c) == (n + c - 1) \div c

WithOutcome(kinds) == { k \in ItemCalls : calls[k].outcome \in kinds }

Failures == { "exit_failure", "start_failure" }

\* C1: in a run of the parallel dispatcher (executeParallel, or the map
\* phase of executeMapReduce) the number of delegate calls that have been
\* started and have not settled never exceeds the ceiling.
C1_CeilingNeverExceeded ==
    Batch => Cardinality(InFlight) <= maxConcurrent

\* more items than the ceiling, and the ceiling is reached
C1_Witness ==
    /\ Batch
    /\ Len(items) > maxConcurrent
    /\ maxConcurrent > 1
    /\ Cardinality(InFlight) = maxConcurrent

\* C2: the dispatcher processes ceil(n / c) chunks, each the next c
\* consecutive items in input order (the last possibly shorter), and no call
\* of a later chunk is started before every call of the chunks before it has
\* settled.
C2_ChunksInOrder ==
    Batch =>
        \* calls are started in input order, one per item so far
        /\ \A k \in ItemCalls : calls[k].idx = k
        \* whole chunks only: i counts c items per chunk that was awaited
        /\ i % maxConcurrent = 0
        /\ Cardinality(ItemCalls) =
               IF pc \in { "par_await", "map_await" }
               THEN Min(i + maxConcurrent, Len(items))
               ELSE Min(i, Len(items))
        \* the barrier between chunks
        /\ \A k1, k2 \in ItemCalls :
               ChunkNo(k1) < ChunkNo(k2) => Settled(k1)
        \* the number of chunks
        /\ LoopOver => i \div maxConcurrent = CeilDiv(Len(items), maxConcurrent)

\* the second, shorter chunk of three items under a ceiling of two is in
\* flight after the first chunk has settled
C2_Witness ==
    /\ Batch
    /\ Len(items) = 3
    /\ maxConcurrent = 2
    /\ pc \in { "par_await", "map_await" }
    /\ i = 2
    /\ InFlight = { 3 }

\* C3: a failing delegate call aborts nothing: every item gets its call and
\* its outcome is recorded, whatever happened to the other items; with one
\* failing item among N otherwise successful ones, N-1 results are recorded.
C3_FailureIsolated ==
    (Batch /\ LoopOver) =>
        /\ Cardinality(ItemCalls) = Len(items)
        /\ \A k \in ItemCalls : Settled(k)
        /\ (IF name = "execute_parallel_mcp_client"
            THEN Len(results) ELSE Len(mapResults))
               = Cardinality(WithOutcome({ "output" }))
        /\ Cardinality(WithOutcome(Failures \cup { "diagnostic" }))
               = Cardinality({ j \in DOMAIN errors :
                     errors[j][1] \in { "Failed to process item \"",
                                        "Error processing item \"" } })
        /\ (/\ Cardinality(WithOutcome(Failures)) = 1
            /\ Cardinality(WithOutcome({ "output" })) = Len(items) - 1)
           => /\ (name = "execute_parallel_mcp_client"
                     => Len(results) = Len(items) - 1)
              /\ (name = "execute_map_reduce_mcp_client"
                     => Len(mapResults) = Len(items) - 1)

\* the first of three items failed, in the first chunk, and the two others
\* delivered their results
C3_Witness ==
    /\ name = "execute_parallel_mcp_client"
    /\ pc = "done"
    /\ Len(items) = 3
    /\ calls[1].outcome \in Failures
    /\ Len(response.results) = 2
    /\ Len(response.errors) = 1

ItemErrorHeads == { "Failed to process item \"", "Error processing item \"" }

\* the accumulator's starting text
InitialText == IF initialValue.some THEN initialValue.val ELSE << >>

\* C4 as claimed: a failing reduce step adds no message, so the errors that
\* mapReduce returns are exactly the per-item errors of the map phase.
C4_Original ==
    response.kind = "map_reduce" =>
        \A j \in DOMAIN response.errors :
            response.errors[j][1] \in ItemErrorHeads

\* C4 as amended: when the delegate call of a reduce step fails, the
\* accumulator keeps its value, the remaining reduce steps are not run, and
\* exactly one message "Map-reduce operation failed: ..." carrying the
\* failure's message is appended to the errors; mapReduce returns at once with
\* that accumulator and the map-phase errors followed by this message.
C4_ReduceFailureCaught ==
    [][ \A k \in DOMAIN calls :
          (/\ calls[k].kind = "reduce"
           /\ calls[k].status = "running"
           /\ calls'[k].status = "rejected")
          => /\ accumulator' = accumulator
             /\ errors' = Append(errors,
                    << "Map-reduce operation failed: " >> \o calls'[k].message)
             /\ pc' = "done"
             /\ response'.kind = "map_reduce"
             /\ response'.result = accumulator
             /\ response'.errors = errors'
             /\ response'.isError ]_vars

\* a reduce step failed while a map output was still waiting to be folded
C4_Witness ==
    /\ response.kind = "map_reduce"
    /\ calls # << >>
    /\ calls[Len(calls)].kind = "reduce"
    /\ calls[Len(calls)].outcome = "exit_failure"
    /\ r < Len(mapResults)
    /\ response.errors[Len(response.errors)][1] = "Map-reduce operation failed: "

\* every call of the run exited 0 after printing its whole reply
AllSucceeded ==
    /\ Cardinality(ItemCalls) = Len(items)
    /\ \A k \in DOMAIN calls :
          calls[k].outcome = "output" /\ calls[k].got = calls[k].reply

IsMapCall(k) == calls[k].kind = "map"

RECURSIVE GotOf(_)
GotOf(ks) ==
    IF ks = << >> THEN << >> ELSE calls[Head(ks)].got \o GotOf(Tail(ks))

\* C5 as claimed: with every call succeeding, an identity map and a reduce
\* returning accumulator + result, the final result is the initial value
\* followed by the mapped outputs in the order their map calls completed.
C5_Original ==
    (response.kind = "map_reduce" /\ AllSucceeded) =>
        response.result = InitialText \o GotOf(SelectSeq(completed, IsMapCall))

\* C5 as amended: the mapped outputs are folded in the order of their
\* items, whatever order the map calls completed in.
C5_InputOrder ==
    (response.kind = "map_reduce" /\ AllSucceeded) =>
        /\ mapResults = [ k \in 1..Len(items) |-> calls[k].got ]
        /\ response.result =
               InitialText \o GotOf([ k \in 1..Len(items) |-> k ])

\* every call succeeded and the second item's map call completed first
C5_Witness ==
    /\ response.kind = "map_reduce"
    /\ AllSucceeded
    /\ Len(items) = 3
    /\ completed[1] = 2
    /\ response.result = InitialText \o items[1] \o items[2] \o items[3]

RECURSIVE OutputsOf(_)
OutputsOf(ks) ==
    IF ks = << >> THEN << >>
    ELSE (IF calls[Head(ks)].outcome = "output"
          THEN << calls[Head(ks)].got >> ELSE << >>)
         \o OutputsOf(Tail(ks))

\* C6: in executeParallel, results lists the successful outputs in the
\* order their calls completed, and every result of a chunk precedes every
\* result of a later chunk.
C6_CompletionOrder ==
    name = "execute_parallel_mcp_client" =>
        /\ results = OutputsOf(completed)
        /\ \A j1, j2 \in DOMAIN completed :
              j1 < j2 => ChunkNo(completed[j1]) <= ChunkNo(completed[j2])

\* the two calls of the first chunk completed in reverse input order, and
\* the result of the second chunk comes after both
C6_Witness ==
    /\ response.kind = "parallel"
    /\ completed = << 2, 1, 3 >>
    /\ response.results = << items[2], items[1], items[3] >>
    /\ items[1] # items[2]

Range(f) == { f[x] : x \in DOMAIN f }

FailedEntries(item, code) ==
    { j \in DOMAIN errors :
        /\ errors[j][1] = "Failed to process item \""
        /\ Contains(errors[j], item)
        /\ Contains(errors[j], << "Command failed with code ", code >>) }

ExitFailures(item, code) ==
    { k \in WithOutcome({ "exit_failure" }) :
        items[calls[k].idx] = item /\ calls[k].code = code }

\* C7: each item whose process exits with a non-zero status adds exactly
\* one entry to the error list, the entry contains the item's literal value
\* and the exit code, and the item adds nothing to the results; with exactly
\* one such item among successful ones the error list has exactly one entry.
C7_ExitFailureRecorded ==
    Batch =>
        /\ \A k \in WithOutcome({ "exit_failure" }) :
              /\ calls[k].code \notin { "", "0" }
              /\ calls[k].got = << >>
              /\ ~calls[k].ret.some
              /\ FailedEntries(items[calls[k].idx], calls[k].code) # { }
        /\ \A item \in Range(items), code \in { CodeStr(c) : c \in ExitCodes } :
              Cardinality(FailedEntries(item, code))
                  = Cardinality(ExitFailures(item, code))
        /\ Len(results) <= Cardinality(WithOutcome({ "output" }))
        /\ Len(mapResults) <= Cardinality(WithOutcome({ "output" }))
        /\ (/\ pc = "done"
            /\ Cardinality(WithOutcome({ "exit_failure" })) = 1
            /\ \A k \in DOMAIN calls :
                  calls[k].outcome \in { "exit_failure", "output" }
                  /\ (calls[k].outcome = "exit_failure" => k \in ItemCalls))
           => Len(response.errors) = 1

\* the second of three items exited with status 1 after writing to both of
\* its streams; the two others succeeded
C7_Witness ==
    /\ response.kind = "parallel"
    /\ Len(items) = 3
    /\ response.errors =
           << << "Failed to process item \"", "b", "\": ",
                 "Command failed with code ", "1", ". stderr: ", "diag" >> >>
    /\ response.results = << << "a" >>, << "c" >> >>

\* C8: with items = [] the parallel operation returns empty results and
\* empty errors, mapReduce returns the initial value (the empty string when
\* none is given) with empty errors, and no process is ever spawned.
C8_EmptyItems ==
    (Batch /\ Len(items) = 0) =>
        /\ calls = << >>
        /\ pc = "done" =>
              /\ response.errors = << >>
              /\ ~response.isError
              /\ response.results = << >>
              /\ response.kind = "map_reduce" => response.result = InitialText
              /\ response.kind \in { "parallel", "map_reduce" }

\* mapReduce over no items answered with the text "0" it was seeded with
C8_Witness ==
    /\ response.kind = "map_reduce"
    /\ Len(items) = 0
    /\ initialValue = Some(<< "0" >>)
    /\ response.result = << "0" >>
    /\ calls = << >>

\* C9: a delegate call is classified by its exit status only: status 0
\* resolves and the single-call operation answers the primary output when it
\* is non-empty and the diagnostic output otherwise; a non-zero status
\* rejects with a message holding the exit code and the whole diagnostic
\* output; a failure to start rejects; every rejection reaches the caller of
\* the single-call operation as an error-flagged text.
C9_ClassifiedByExitStatus ==
    [][ \A k \in DOMAIN calls :
          (calls[k].status = "running" /\ calls'[k].status # "running")
          => LET c == calls[k]
                 d == calls'[k]
             IN  /\ d.code = "0" =>
                        d.status = "resolved" /\ d.got = c.stdout
                 /\ d.code \notin { "0", "" } =>
                        /\ d.status = "rejected"
                        /\ Contains(d.message, << d.code >>)
                        /\ Contains(d.message, c.stderr)
                 /\ d.code = "" =>
                        /\ d.status = "rejected"
                        /\ d.outcome = "start_failure"
                 /\ c.kind = "single" =>
                        /\ pc' = "done"
                        /\ response'.kind = "single"
                        /\ response'.isError = (d.code # "0")
                        /\ d.code = "0" =>
                              response'.text =
                                  IF c.stdout # << >> THEN c.stdout
                                  ELSE c.stderr
                        /\ d.code # "0" =>
                              Contains(response'.text, d.message) ]_vars

\* the program exited 0 having written only to its diagnostic stream, and
\* the single-call operation answered that text without an error flag
C9_Witness ==
    /\ response.kind = "single"
    /\ calls[1].outcome = "diagnostic"
    /\ calls[1].code = "0"
    /\ ~response.isError
    /\ response.text = Diagnostic

\* the accumulator after the last reduce step that delivered output
LastReduced ==
    LET good == { k \in DOMAIN calls :
                    calls[k].kind = "reduce" /\ calls[k].outcome = "output" }
    IN  IF good = { } THEN InitialText
        ELSE calls[CHOOSE k \in good : \A k2 \in good : k2 <= k].got

\* C10: the response of the parallel and map-reduce operations is flagged
\* as an error exactly when the returned error list is non-empty, and it
\* carries every result obtained from the items that succeeded (for
\* map-reduce: the accumulator reached) also when other items failed.
C10_ErrorFlagAndPartialResults ==
    response.kind \in { "parallel", "map_reduce" } =>
        /\ response.isError = (response.errors # << >>)
        /\ response.errors = errors
        /\ response.kind = "parallel" =>
              /\ Len(response.results) = Cardinality(WithOutcome({ "output" }))
              /\ \A k \in WithOutcome({ "output" }) :
                    \E j \in DOMAIN response.results :
                        response.results[j] = calls[k].got
        /\ response.kind = "map_reduce" => response.result = LastReduced

\* a map item failed, the two others were folded, and the response carries
\* both the error and the folded text
C10_Witness ==
    /\ response.kind = "map_reduce"
    /\ response.isError
    /\ Len(response.errors) = 1
    /\ Len(items) = 3
    /\ calls[2].outcome \in Failures
    /\ response.result = << "0", "a", "c" >>


MapReduce == name = "execute_map_reduce_mcp_client"

ReduceCalls == { k \in DOMAIN calls : calls[k].kind = "reduce" }

SummaryEntries ==
    { j \in DOMAIN errors : errors[j][1] = "Map-reduce operation failed: " }

\* C11: mapReduce has no terminal error state: whatever calls fail, the
\* operation can only stop in Done, where it returns the pair (result,
\* errors) with result the accumulator left by the last reduce step that
\* delivered one (the initial value if none did), and a failure caught at
\* top level has appended exactly one summary message to errors.
C11_NoTerminalError ==
    MapReduce =>
        /\ pc = "done" \/ ENABLED Next
        /\ Cardinality(SummaryEntries)
               = Cardinality({ k \in ReduceCalls : calls[k].status = "rejected" })
        /\ Cardinality(SummaryEntries) <= 1
        /\ pc = "done" =>
              /\ response.kind = "map_reduce"
              /\ response.result = LastReduced
              /\ response.errors = errors
              /\ \A j \in SummaryEntries : j = Len(errors)

\* the second reduce step failed after the first had produced "0a": the
\* response holds "0a" and ends with the one summary message
C11_Witness ==
    /\ pc = "done"
    /\ MapReduce
    /\ Cardinality(ReduceCalls) = 2
    /\ calls[Len(calls)].status = "rejected"
    /\ response.result = << "0", "a" >>
    /\ Cardinality(SummaryEntries) = 1

\* C12 as claimed: no call is retried or skipped: executeParallel issues
\* one call per item, mapReduce one map call per item and then one reduce
\* call for each map output, also when an earlier call failed.
C12_Original ==
    pc = "done" =>
        /\ Batch => /\ Cardinality(ItemCalls) = Len(items)
                    /\ \A k \in ItemCalls : calls[k].idx = k
        /\ MapReduce => Cardinality(ReduceCalls) = Len(mapResults)

\* the number of reduce calls mapReduce makes: one per map output, up to
\* and including the first one that fails
ReduceCallsDue ==
    IF \E k \in ReduceCalls : calls[k].status = "rejected"
    THEN calls[CHOOSE k \in ReduceCalls : calls[k].status = "rejected"].idx
    ELSE Len(mapResults)

\* C12 as amended: no call is retried, and none is skipped except after a
\* failed reduce call: one call per item in executeParallel and in the map
\* phase whatever fails, then one reduce call per map output in order, up to
\* and including the first reduce call that fails; the map outputs after a
\* failed reduce call get no call.
C12_CallsIssued ==
    /\ (Batch /\ LoopOver) =>
          /\ Cardinality(ItemCalls) = Len(items)
          /\ \A k \in ItemCalls : calls[k].idx = k
    /\ Len(calls) = Cardinality(ItemCalls) + Cardinality(ReduceCalls)
                        + (IF Batch \/ pc = "request" THEN 0 ELSE 1)
    /\ \A k \in ReduceCalls :
          /\ calls[k].idx = k - Len(items)
          /\ calls[k].idx <= Len(mapResults)
          /\ calls[k].status = "rejected" => k = Len(calls)
    /\ Cardinality(ReduceCalls) = r
    /\ (pc = "done" /\ MapReduce) => Cardinality(ReduceCalls) = ReduceCallsDue

\* the first of three reduce steps failed and the two others were not run
C12_Witness ==
    /\ pc = "done"
    /\ MapReduce
    /\ Len(mapResults) = 3
    /\ Cardinality(ReduceCalls) = 1
    /\ calls[Len(calls)].status = "rejected"

\* C13: at most one reduce call is in flight at any time, a reduce step is
\* started only after the one before it has settled, and no reduce call is
\* started while a map call is still in flight.
C13_ReduceSequential ==
    /\ Cardinality(ReduceCalls \cap InFlight) <= 1
    /\ \A k \in ReduceCalls : \A k2 \in 1..(k - 1) : Settled(k2)

\* the second reduce step is in flight after the first has settled
C13_Witness ==
    /\ Cardinality(ReduceCalls) = 2
    /\ InFlight = { Len(calls) }
    /\ calls[Len(calls)].kind = "reduce"
    /\ calls[Len(calls)].stdout # << >>


\* seq2 is seq1 with exactly one more entry at its end
OneAppended(seq1, seq2) ==
    /\ Len(seq2) = Len(seq1) + 1
    /\ SubSeq(seq2, 1, Len(seq1)) = seq1

\* C14 as claimed: results and errors are appended to only at serialization
\* points: when no call of the current chunk is in flight any more, or after
\* a reduce step has settled; never while a sibling call is outstanding.
C14_Original ==
    [][ (results' # results \/ errors' # errors) => InFlight' = { } ]_vars

\* C14 as amended: results and errors are append-only and each append is a
\* single entry made by the continuation of the one call that settles in
\* that step, whether or not sibling calls of its chunk are still in flight;
\* only the map outputs are appended after the whole chunk has settled.
C14_AppendPerCall ==
    [][ /\ results' # results => OneAppended(results, results')
        /\ errors' # errors => OneAppended(errors, errors')
        /\ (results' # results \/ errors' # errors) =>
              /\ results' = results \/ errors' = errors
              /\ Len(completed') = Len(completed) + 1
              /\ InFlight' = InFlight \ { completed'[Len(completed')] }
        /\ mapResults' # mapResults =>
              /\ InFlight = { } /\ InFlight' = { }
              /\ completed' = completed
              /\ Len(mapResults') > Len(mapResults)
              /\ SubSeq(mapResults', 1, Len(mapResults)) = mapResults ]_vars

\* a result was appended while a sibling call of its chunk is in flight
C14_Witness ==
    /\ name = "execute_parallel_mcp_client"
    /\ pc = "par_await"
    /\ Len(results) = 1
    /\ InFlight # { }
    /\ \E k \in InFlight : \E k2 \in ItemCalls :
          Settled(k2) /\ ChunkNo(k2) = ChunkNo(k)

\* C15 as claimed: after a reduce step whose call exits 0 the accumulator is
\* the text that call returned, the primary output if non-empty and the
\* diagnostic output otherwise.
C15_Original ==
    [][ \A k \in DOMAIN calls :
          (/\ calls[k].kind = "reduce"
           /\ calls[k].status = "running"
           /\ calls'[k].status = "resolved")
          => accumulator' = IF calls[k].stdout # << >> THEN calls[k].stdout
                            ELSE calls[k].stderr ]_vars

\* C15 as amended: after a reduce step whose call exits 0 with non-empty
\* primary output the accumulator is that output; when the primary output is
\* empty the accumulator keeps its value, whatever the diagnostic output;
\* the accumulator changes at no other moment after its initialisation, so
\* at most once per reduce step.
C15_AccumulatorUpdate ==
    [][ /\ \A k \in DOMAIN calls :
              (/\ calls[k].kind = "reduce"
               /\ calls[k].status = "running"
               /\ calls'[k].status = "resolved")
              => accumulator' = IF calls[k].stdout # << >> THEN calls[k].stdout
                                ELSE accumulator
        /\ accumulator' # accumulator =>
              \/ pc = "request"
              \/ /\ pc = "reduce_await"
                 /\ calls[Len(calls)].status = "running"
                 /\ calls'[Len(calls)].status = "resolved"
                 /\ calls'[Len(calls)].outcome = "output" ]_vars

\* a reduce step exited 0 with diagnostic output only and the accumulator
\* still is the initial value
C15_Witness ==
    /\ MapReduce
    /\ ReduceCalls # { }
    /\ calls[Len(calls)].kind = "reduce"
    /\ calls[Len(calls)].outcome = "diagnostic"
    /\ r = 1
    /\ InitialText = << "0" >>
    /\ accumulator = << "0" >>

\* C16: when executeParallel returns, every item has contributed exactly one
\* entry to results (exit 0 with primary output) or to errors (failure, or
\* exit 0 with diagnostic output only), except the items that exited 0 with
\* both streams empty, which contribute nothing: |results| + |errors| is n
\* minus the number of silent items, and at every moment |results| +
\* |errors| is at most the number of settled calls.
C16_OneEntryPerItem ==
    name = "execute_parallel_mcp_client" =>
        /\ Len(results) = Cardinality(WithOutcome({ "output" }))
        /\ Len(errors) = Cardinality(WithOutcome(Failures \cup { "diagnostic" }))
        /\ Len(results) + Len(errors)
               <= Cardinality({ k \in ItemCalls : Settled(k) })
        /\ pc = "done" =>
              /\ Len(response.results) + Len(response.errors)
                     = Len(items) - Cardinality(WithOutcome({ "silent" }))
              /\ \A k \in ItemCalls : Settled(k)

\* executeParallel returned for three items of which one was silent, one
\* gave a result and one an error
C16_Witness ==
    /\ name = "execute_parallel_mcp_client"
    /\ pc = "done"
    /\ Len(items) = 3
    /\ Cardinality(WithOutcome({ "silent" })) = 1
    /\ Len(response.results) = 1
    /\ Len(response.errors) = 1


\* a call of a chunk is in flight and items of later chunks are waiting
ChunkOutstanding ==
    /\ InFlight \cap ItemCalls # { }
    /\ Cardinality(ItemCalls) < Len(items)

\* while a call is in flight the invocation has not returned and no call of
\* a later chunk, nor any reduce call, has been started
BlockedWhileInFlight ==
    \A k \in InFlight :
        /\ pc # "done"
        /\ response = NoResponse
        /\ ~ENABLED HandlerStep
        /\ k \in ItemCalls =>
              \A k2 \in DOMAIN calls :
                  calls[k2].kind # "reduce"
                  /\ (k2 \in ItemCalls => ChunkNo(k2) <= ChunkNo(k))

\* C17: when every spawned process eventually exits or fails to start, every
\* invocation of the single, parallel and map-reduce operations eventually
\* returns; and as there is no timeout, as long as one call of a chunk has not
\* settled no call of the next chunk is started and the invocation does not
\* return.
C17_ReturnsIffCallsSettle ==
    /\ <>(pc = "done" /\ response # NoResponse)
    /\ [] BlockedWhileInFlight

\* three items under a ceiling of 2: the first chunk holds a call in flight
\* besides a settled one, with the third item waiting
C17_Witness ==
    /\ Batch
    /\ maxConcurrent = 2
    /\ Len(items) = 3
    /\ Len(calls) = 2
    /\ InFlight = { 1 }
    /\ ChunkOutstanding


\* the call record k is new in the next state
Spawned(k) == k \notin DOMAIN calls

\* the text made by the bytes the program of call c has written so far to
\* its primary stream
WrittenText(c) == BufferToString(SubSeq(c.reply, 1, c.read))

\* the steps of a call in their order, the single result, and the
\* separation of the streams and of concurrent calls
CallProtocol ==
    \A k \in DOMAIN calls' :
        IF Spawned(k)
        THEN /\ calls'[k].status = "running"
             /\ calls'[k].stdinEnded
             /\ calls'[k].stdin[Len(calls'[k].stdin)] = "\n"
             /\ "\n" \notin Range(SubSeq(calls'[k].stdin, 1,
                                         Len(calls'[k].stdin) - 1))
             /\ calls'[k].read = 0
             /\ calls'[k].stdout = << >>
             /\ calls'[k].stderr = << >>
        ELSE LET c == calls[k]
                 d == calls'[k]
             IN  /\ d.stdin = c.stdin
                 /\ c.status # "running" => d = c
                 /\ (c.status = "running" /\ d.status = "running" /\ d # c)
                    => /\ \A k2 \in DOMAIN calls \ { k } :
                              calls'[k2] = calls[k2]
                       /\ d.stdout = c.stdout \/ d.stderr = c.stderr
                       /\ d.stderr = SubSeq(Diagnostic, 1, Len(d.stderr))
                       /\ Len(d.stderr) >= Len(c.stderr)
                       /\ d.read >= c.read
                 /\ (c.status = "running" /\ d.status = "resolved")
                    => /\ d.got = c.stdout
                       /\ c.stderr = SubSeq(Diagnostic, 1, Len(c.stderr))

\* the primary text a resolving call hands over is the text of the bytes
\* its process wrote
ReturnsWhatWasWritten ==
    \A k \in DOMAIN calls :
        (calls[k].status = "running" /\ calls'[k].status = "resolved")
        => calls'[k].got = WrittenText(calls[k])

\* C18: each delegate call is spawn, one write of the input plus a line
\* terminator, close of the input stream, then output chunks, then exit; its
\* result is produced exactly once, only when the process has closed or
\* failed to start, and on success the returned primary and diagnostic texts
\* are the concatenation in arrival order of what the process wrote to the
\* respective stream, nothing lost and nothing mixed between the streams or
\* between concurrent calls.
C18_Original == [][CallProtocol /\ ReturnsWhatWasWritten]_vars


\* the item calls whose chunk has been collected, in the order of the items
Collected == [ k \in 1..Min(i, Cardinality(ItemCalls)) |-> k ]

\* every reduce step of the run was made and printed its whole reply
ReduceDelivered ==
    /\ Cardinality(ReduceCalls) = Len(mapResults)
    /\ \A k \in ReduceCalls :
          calls[k].outcome = "output" /\ calls[k].got = calls[k].reply

\* C19: the map outputs handed to the reduce phase are the outputs of the
\* map calls that succeeded, in the order of their items, with the failed
\* and the empty ones removed, whatever order the map calls completed in;
\* so the final accumulator does not depend on that order.
C19_MapOutputsInItemOrder ==
    MapReduce =>
        /\ mapResults = OutputsOf(Collected)
        /\ LoopOver => Len(Collected) = Len(items)
        /\ (pc = "done" /\ ReduceDelivered) =>
              response.result = InitialText \o Concat(OutputsOf(Collected))

\* the first item failed, the second item's call completed before it, and
\* the outputs of the second and third item were reduced in that order
C19_Witness ==
    /\ MapReduce
    /\ pc = "done"
    /\ Len(items) = 3
    /\ maxConcurrent = 2
    /\ completed[1] = 2
    /\ calls[1].outcome \in Failures
    /\ mapResults = << items[2], items[3] >>
    /\ ReduceDelivered
    /\ response.result = InitialText \o items[2] \o items[3]


\* the template with every accumulator placeholder replaced by acc and
\* every result placeholder by result, in one pass over the template, the
\* inserted texts taken as they are
RECURSIVE Verbatim(_, _, _)
Verbatim(template, acc, result) ==
    IF template = << >> THEN << >>
    ELSE (CASE Head(template) = "{accumulator}" -> acc
            [] Head(template) = "{result}" -> result
            [] OTHER -> << Head(template) >>)
         \o Verbatim(Tail(template), acc, result)

\* C20: the prompt sent for a reduce step is reducePrompt with each
\* accumulator placeholder replaced by the current accumulator and each
\* result placeholder by the current map output, both inserted verbatim: an
\* accumulator that contains the result placeholder appears unchanged.
C20_Original ==
    [][ \A k \in DOMAIN calls' :
          (Spawned(k) /\ calls'[k].kind = "reduce")
          => calls'[k].stdin =
                 StdinBytes(Verbatim(reducePrompt, accumulator,
                                     mapResults[calls'[k].idx]), TRUE) ]_vars


\* C21: the ceiling the constructor computes from the environment value,
\* the config value and the default 10 is an integer >= 1 whatever integer
\* the environment or the config supplies, 0 and negative values included,
\* so the index of the chunk loop strictly increases and the loop ends.
C21_Original ==
    [][ /\ maxConcurrent \in Nat
        /\ maxConcurrent >= 1
        /\ i' # i => i' > i ]_vars

\* the environment gave -1: after a first chunk of all items but the last,
\* the loop index has gone down to the depth followed and the last item has
\* never been called
C21_Descent ==
    /\ env = Some(<< "-", "1" >>)
    /\ maxConcurrent = -1
    /\ Len(items) = 3
    /\ Len(calls) = 2
    /\ i = -MaxDescent
    /\ pc = "par_loop"

====
